---- MODULE Spec2Model ----
(***************************************************************************)
(* A model of gwpy/plot/plot.py: the axes-grouping heuristic               *)
(* (_group_axes_data), the x-scale probe (_parse_xscale), the construction *)
(* of the axes grid (Plot.__init__ / Plot._init_axes) and                  *)
(* Plot.add_segments_bar.                                                  *)
(*                                                                         *)
(* Python objects are records [type, xunit, ref, items]:                   *)
(*   - a data set:        type is its class, xunit its x-unit ("none" when *)
(*                        the object has no xunit attribute);              *)
(*   - a caller's list:   type "list", ref >= 1 names the object, whose    *)
(*                        elements live in heap[ref] (lists are mutable    *)
(*                        and may be passed more than once);               *)
(*   - a new list:        type "list", ref 0, elements in items;           *)
(*   - tuple, KeysView, ValuesView: elements in items (no append);         *)
(*   - dict:              items are its values in insertion order.         *)
(***************************************************************************)
EXTENDS Integers, Sequences, FiniteSets, TLC

VARIABLES data, heap, separate, flat, geometry, sharex, sharey, method,
          pc, ret, frame, axes, bar

vars == <<data, heap, separate, flat, geometry, sharex, sharey, method,
          pc, ret, frame, axes, bar>>

\* ---------------------------------------------------------------- bounds
MaxInputs == 3      \* inputs of one _group_axes_data / _parse_xscale call
MaxData == 2        \* mixed data arguments of one Plot(...)
MaxGrid == 4        \* plain data arguments of one Plot(...)
MaxDim == 2         \* rows, columns of an explicit geometry
MaxBars == 2        \* add_segments_bar calls on one figure

\* ---------------------------------------------------------------- values
None == "None"
NoGeometry == <<>>
NoError == "none"

iterable_types == {"list", "tuple", "KeysView", "ValuesView"}

Item(t, u) == [type |-> t, xunit |-> u, ref |-> 0, items |-> <<>>]
Coll(t, s) == [type |-> t, xunit |-> "none", ref |-> 0, items |-> s]
ListRef(r) == [type |-> "list", xunit |-> "none", ref |-> r, items |-> <<>>]

Types == {"TimeSeries", "FrequencySeries"}
XUnits == {"s", "ms", "Hz"}
Items == {Item(t, u) : t \in Types, u \in XUnits \cup {"none"}}

physical_type(u) == IF u \in {"s", "ms"} THEN "time" ELSE "frequency"

ItemA == Item("TimeSeries", "s")
ItemB == Item("TimeSeries", "ms")
ItemC == Item("FrequencySeries", "Hz")

SeqsUpTo(S, n) == UNION {[1..k -> S] : k \in 0..n}

RECURSIVE Concat(_)
Concat(ss) == IF ss = <<>> THEN <<>> ELSE Head(ss) \o Concat(Tail(ss))

\* the elements of a collection object, as iterating it yields them
Contents(g, h) == IF g.type = "list" /\ g.ref # 0 THEN h[g.ref] ELSE g.items

\* ------------------------------------------------------ _group_axes_data
Truthy(sep) == sep = "True"

AutoSeparate(inputs, sep) ==
    IF sep = None /\ inputs # <<>>
    THEN IF \E i \in DOMAIN inputs : inputs[i].type \in iterable_types \cup {"dict"}
         THEN "True"
         ELSE IF ~(\A i \in DOMAIN inputs : inputs[i].type = inputs[1].type)
              THEN "True"
              ELSE sep
    ELSE sep

\* x = list(x.values())
UnwrapDict(x) == IF x.type = "dict" THEN Coll("list", x.items) ELSE x

\* out[-1].append(x): only a list has append
AppendToLast(st, x) ==
    LET n == Len(st.out)
        last == st.out[n]
    IN  IF last.type # "list"
        THEN [st EXCEPT !.err = "AttributeError"]
        ELSE IF last.ref = 0
             THEN [st EXCEPT !.out[n].items = Append(@, x)]
             ELSE [st EXCEPT !.heap[last.ref] = Append(@, x)]

GroupStepAlwaysNew(st, x, i, sep) ==
    LET y == UnwrapDict(x)
    IN  IF y.type \in iterable_types
        THEN [st EXCEPT !.out = Append(@, y), !.first = Append(@, i)]
        ELSE [st EXCEPT !.out = Append(@, Coll("list", <<x>>)),
                        !.first = Append(@, i)]

\* one iteration of "for x in inputs"; first[k] is the index of the input
\* that started group k
GroupStep(st, x, i, sep) ==
    LET y == UnwrapDict(x)
    IN  IF y.type \in iterable_types
        THEN [st EXCEPT !.out = Append(@, y), !.first = Append(@, i)]
        ELSE IF Truthy(sep) \/ st.out = <<>>
             THEN [st EXCEPT !.out = Append(@, Coll("list", <<x>>)),
                             !.first = Append(@, i)]
             ELSE AppendToLast(st, x)

RECURSIVE GroupLoop(_, _, _, _)
GroupLoop(st, inputs, i, sep) ==
    IF i > Len(inputs) \/ st.err # NoError
    THEN st
    ELSE GroupLoop(GroupStep(st, inputs[i], i, sep), inputs, i + 1, sep)

Flatten(out, h) == Concat([k \in DOMAIN out |-> Contents(out[k], h)])

\* the result of _group_axes_data(inputs, separate=sep, flat=fl) called with
\* the caller's lists as in h: the groups, the lists afterwards, the value
\* returned, or the error raised
GroupAxesData(inputs, sep, fl, h) ==
    LET st == GroupLoop([out |-> <<>>, first |-> <<>>, heap |-> h, err |-> NoError],
                        inputs, 1, AutoSeparate(inputs, sep))
    IN  [err |-> st.err, out |-> st.out, first |-> st.first, heap |-> st.heap,
         value |-> IF st.err # NoError THEN <<>>
                   ELSE IF fl THEN Flatten(st.out, st.heap) ELSE st.out]

\* --------------------------------------------------------- _parse_xscale
UnitsOf(d) == {d[i].xunit : i \in {j \in DOMAIN d : d[j].xunit # "none"}}

ParseXscaleAnyUnit(d) ==
    LET units == UnitsOf(d)
    IN  IF Cardinality(units) < 1 THEN None
        ELSE LET unit == CHOOSE u \in units : TRUE
             IN  IF physical_type(unit) = "time" THEN "auto-gps" ELSE None

ParseXscale(d) ==
    LET units == UnitsOf(d)
    IN  IF Cardinality(units) # 1 THEN None
        ELSE LET unit == CHOOSE u \in units : TRUE
             IN  IF physical_type(unit) = "time" THEN "auto-gps" ELSE None

\* ------------------------------------------------------------- idle values
NoRet == [err |-> NoError, out |-> <<>>, first |-> <<>>, heap |-> <<>>, value |-> <<>>]
NoFrame == [separate |-> None, naxes |-> 0, nrows |-> 0, ncols |-> 0,
            sharex |-> "none", sharey |-> "none", xscale |-> None,
            figsize |-> "rc", axes_groups |-> <<>>]
NoBar == [n |-> 0, ax |-> 0, location |-> "bottom", sharex |-> -1, err |-> NoError]

Idle ==
    /\ geometry = NoGeometry /\ sharex = "False" /\ sharey = "False"
    /\ method = "plot" /\ ret = NoRet /\ frame = NoFrame
    /\ axes = <<>> /\ bar = NoBar

\* --------------------------------------------- calls of _group_axes_data
CollContents == {<<>>, <<ItemA>>, <<ItemA, ItemC>>}
GroupInputs ==
    {ItemA, ItemB, ItemC, ListRef(1)}
    \cup {Coll(t, s) : t \in {"tuple", "KeysView", "ValuesView", "dict"}, s \in CollContents}

InitGroup ==
    /\ data \in SeqsUpTo(GroupInputs, MaxInputs)
    /\ heap \in [{1} -> CollContents]
    /\ separate \in {None, "True", "False"}
    /\ flat \in BOOLEAN
    /\ pc = "group_axes_data"
    /\ Idle

InitSingular ==
    /\ data \in SeqsUpTo(Items, MaxInputs)
    /\ heap = <<>>
    /\ separate \in {None, "True", "False"}
    /\ flat \in BOOLEAN
    /\ pc = "group_axes_data"
    /\ Idle

CallGroupAxesData ==
    /\ pc = "group_axes_data"
    /\ LET r == GroupAxesData(data, separate, flat, heap)
       IN  /\ ret' = r
           /\ heap' = r.heap
           /\ pc' = IF r.err = NoError THEN "grouped" ELSE "group_raised"
    /\ UNCHANGED <<data, separate, flat, geometry, sharex, sharey, method,
                   frame, axes, bar>>

NextGroup == CallGroupAxesData

SpecGroup == InitGroup /\ [][NextGroup]_vars
SpecSingular == InitSingular /\ [][NextGroup]_vars

\* ------------------------------------------------- calls of _parse_xscale
InitXscale ==
    /\ data \in SeqsUpTo(Items, MaxInputs)
    /\ heap = <<>>
    /\ separate = None
    /\ flat = TRUE
    /\ pc = "parse_xscale"
    /\ Idle

CallParseXscale ==
    /\ pc = "parse_xscale"
    /\ ret' = [NoRet EXCEPT !.value = <<ParseXscale(data)>>]
    /\ pc' = "xscale_parsed"
    /\ UNCHANGED <<data, heap, separate, flat, geometry, sharex, sharey, method,
                   frame, axes, bar>>

NextXscale == CallParseXscale

SpecXscale == InitXscale /\ [][NextXscale]_vars

\* ------------------------------------------ Plot.__init__, Plot._init_axes
GPS_SCALES == {"auto-gps"}

\* isinstance(share, bool): True -> "all", False -> "none"
ShareSpec(share) ==
    IF share = "True" THEN "all" ELSE IF share = "False" THEN "none" ELSE share

ForceSeparateNever(geom, ndata, sep) == sep

\* geometry is not None and geometry[0] * geometry[1] == len(data)
ForceSeparate(geom, ndata, sep) ==
    IF geom # NoGeometry /\ geom[1] * geom[2] = ndata THEN "True" ELSE sep

\* nrows * ncols != naxes
GeometryMismatch(nrows, ncols, naxes) == nrows * ncols # naxes

\* axarr[row, col]: the axes created at that cell, 0 (None) before it is
AxArr(axs, row, col) ==
    IF \E k \in DOMAIN axs : axs[k].row = row /\ axs[k].col = col
    THEN CHOOSE k \in DOMAIN axs : axs[k].row = row /\ axs[k].col = col
    ELSE 0

SharedWithSwapped(axs, share, row, col) ==
    CASE share = "none" -> 0
      [] share = "all" -> AxArr(axs, 0, 0)
      [] share = "row" -> AxArr(axs, 0, col)
      [] share = "col" -> AxArr(axs, row, 0)

SharedWith(axs, share, row, col) ==
    CASE share = "none" -> 0
      [] share = "all" -> AxArr(axs, 0, 0)
      [] share = "row" -> AxArr(axs, row, 0)
      [] share = "col" -> AxArr(axs, 0, col)

\* the k-th element of itertools.product(range(nrows), range(ncols))
GridCell(k, nrows, ncols) == <<(k - 1) \div ncols, (k - 1) % ncols>>

\* the calls of the plotting method for one group
PlotCalls(meth, group) ==
    IF meth \in {"imshow", "pcolormesh"}
    THEN [i \in DOMAIN group |-> <<group[i]>>]
    ELSE <<group>>

ClearXLabel(share, row, nrows) == share = "all" /\ row < nrows - 1
ClearYLabel(share, col, ncols) == share = "all" /\ col < ncols - 1

\* the Axes made by one iteration of the loop, for the k-th group
NewAxes(axs, f, h, meth, k) ==
    LET cell == GridCell(k, f.nrows, f.ncols)
        row == cell[1]
        col == cell[2]
        group == Contents(f.axes_groups[k], h)
    IN  [row |-> row, col |-> col,
         sharex |-> SharedWith(axs, f.sharex, row, col),
         sharey |-> SharedWith(axs, f.sharey, row, col),
         xscale |-> IF f.xscale # None THEN f.xscale ELSE ParseXscale(group),
         calls |-> PlotCalls(meth, group),
         xlabel |-> IF ClearXLabel(f.sharex, row, f.nrows) THEN "" ELSE "auto",
         ylabel |-> IF ClearYLabel(f.sharey, col, f.ncols) THEN "" ELSE "auto",
         xticklabels |-> TRUE, locator |-> FALSE,
         name |-> "rectilinear", anchor |-> 0, location |-> "grid"]

ShareValues == {"False", "True", "none", "all", "row", "col"}
Geometries == {NoGeometry} \cup ((1..MaxDim) \X (1..MaxDim))

PlotContents == {<<ItemA>>, <<ItemA, ItemC>>}
PlotInputs ==
    {ItemA, ItemB, ItemC, ListRef(1)}
    \cup {Coll(t, s) : t \in {"tuple", "dict"}, s \in PlotContents}

InitCommon ==
    /\ separate \in {None, "True", "False"}
    /\ geometry \in Geometries
    /\ flat = FALSE
    /\ pc = "Plot"
    /\ ret = NoRet /\ frame = NoFrame /\ axes = <<>> /\ bar = NoBar

\* Plot(*data, ...) with data sets, lists, tuples and dicts
InitMixed ==
    /\ data \in SeqsUpTo(PlotInputs, MaxData)
    /\ heap \in [{1} -> PlotContents]
    /\ sharex \in {"False", "True"}
    /\ sharey \in {"False", "True"}
    /\ method \in {"plot", "imshow"}
    /\ InitCommon

\* Plot(*data, ...) with data sets only, every share spec
InitPlain ==
    /\ data \in SeqsUpTo({ItemA, ItemC}, MaxGrid)
    /\ heap = <<>>
    /\ sharex \in ShareValues
    /\ sharey \in ShareValues
    /\ method = "plot"
    /\ InitCommon

Init == InitMixed \/ InitPlain

\* Plot.__init__ up to the geometry check of _init_axes
InitAxes ==
    /\ pc = "Plot"
    /\ LET probe == GroupAxesData(data, None, TRUE, heap)
           xs == ParseXscale(probe.value)
           figsize == IF xs \in GPS_SCALES THEN "12x6" ELSE "rc"
           sep == ForceSeparate(geometry, Len(data), separate)
           r == GroupAxesData(data, sep, FALSE, probe.heap)
           naxes == Len(r.out)
           geom == IF geometry = NoGeometry THEN <<naxes, 1>> ELSE geometry
           f == [separate |-> sep, naxes |-> naxes,
                 nrows |-> geom[1], ncols |-> geom[2],
                 sharex |-> ShareSpec(sharex), sharey |-> ShareSpec(sharey),
                 xscale |-> xs, figsize |-> figsize, axes_groups |-> r.out]
       IN  /\ heap' = r.heap
           /\ IF r.err # NoError
              THEN /\ pc' = "raised"
                   /\ ret' = [NoRet EXCEPT !.err = r.err]
                   /\ frame' = [NoFrame EXCEPT !.separate = sep,
                                               !.sharex = ShareSpec(sharex),
                                               !.sharey = ShareSpec(sharey),
                                               !.xscale = xs, !.figsize = figsize]
              ELSE IF GeometryMismatch(geom[1], geom[2], naxes)
              THEN /\ pc' = "raised"
                   /\ ret' = [NoRet EXCEPT !.err = "ValueError",
                                           !.value = <<naxes, geom[1], geom[2]>>]
                   /\ frame' = f
              ELSE /\ pc' = "axes_loop"
                   /\ ret' = NoRet
                   /\ frame' = f
    /\ UNCHANGED <<data, separate, flat, geometry, sharex, sharey, method, axes, bar>>

\* one iteration of "for group, (row, col) in zip(...)"
AddSubplot ==
    /\ pc = "axes_loop"
    /\ Len(axes) < frame.naxes
    /\ axes' = Append(axes, NewAxes(axes, frame, heap, method, Len(axes) + 1))
    /\ UNCHANGED <<data, heap, separate, flat, geometry, sharex, sharey, method,
                   pc, ret, frame, bar>>

\* return self.axes
ReturnAxes ==
    /\ pc = "axes_loop"
    /\ Len(axes) = frame.naxes
    /\ pc' = "done"
    /\ UNCHANGED <<data, heap, separate, flat, geometry, sharex, sharey, method,
                   ret, frame, axes, bar>>

Next == InitAxes \/ AddSubplot \/ ReturnAxes

Spec == Init /\ [][Next]_vars

\* -------------------------------------------------- Plot.add_segments_bar
Locations == {"top", "bottom", "left"}
SharexTrue == -1
Segments == Item("DataQualityFlag", "none")

\* the Axes that gca() adds to a figure without axes
GcaAxes ==
    [row |-> 0, col |-> 0, sharex |-> 0, sharey |-> 0, xscale |-> None,
     calls |-> <<>>, xlabel |-> "auto", ylabel |-> "auto",
     xticklabels |-> TRUE, locator |-> FALSE,
     name |-> "rectilinear", anchor |-> 0, location |-> "grid"]

\* the Axes that divider.append_axes(location, ...) makes and segax.plot fills
SegAxes(anchor, loc, target) ==
    [row |-> -1, col |-> -1, sharex |-> target, sharey |-> 0, xscale |-> None,
     calls |-> <<<<Segments>>>>, xlabel |-> "auto", ylabel |-> "auto",
     xticklabels |-> TRUE, locator |-> TRUE,
     name |-> "segments", anchor |-> anchor, location |-> loc]

ValidLocationAny(loc) == TRUE

\* location in {'top', 'bottom'}
ValidLocation(loc) == loc \in {"top", "bottom"}

\* add_segments_bar(segments, ax=a, sharex=sh, location=loc); a = 0 is
\* ax=None, sh = -1 is True, sh = 0 is False or None, sh >= 1 an Axes
AddSegmentsBar ==
    /\ pc = "done"
    /\ bar.n < MaxBars
    /\ \E a \in 0..Len(axes), loc \in Locations, sh \in {SharexTrue} \cup 0..Len(axes) :
        LET axs1 == IF a = 0 /\ axes = <<>> THEN <<GcaAxes>> ELSE axes
            anchor == IF a = 0 THEN Len(axs1) ELSE a
            axs2 == [axs1 EXCEPT ![anchor].locator = TRUE]
            target == IF sh = SharexTrue THEN anchor ELSE sh
            axs3 == IF target = anchor
                    THEN [axs2 EXCEPT ![anchor].xticklabels = FALSE,
                                      ![anchor].xlabel = ""]
                    ELSE axs2
        IN  IF ~ValidLocation(loc)
            THEN /\ axes' = axs2
                 /\ bar' = [n |-> bar.n + 1, ax |-> a, location |-> loc,
                            sharex |-> sh, err |-> "ValueError"]
            ELSE /\ axes' = Append(axs3, SegAxes(anchor, loc, target))
                 /\ bar' = [n |-> bar.n + 1, ax |-> a, location |-> loc,
                            sharex |-> sh, err |-> NoError]
    /\ UNCHANGED <<data, heap, separate, flat, geometry, sharex, sharey, method,
                   pc, ret, frame>>

InitSeg ==
    /\ data \in {<<>>, <<ItemA, ItemC>>}
    /\ heap = <<>>
    /\ separate = None
    /\ geometry = NoGeometry
    /\ sharex \in {"False", "True"}
    /\ sharey = "False"
    /\ method = "plot"
    /\ flat = FALSE
    /\ pc = "Plot"
    /\ ret = NoRet /\ frame = NoFrame /\ axes = <<>> /\ bar = NoBar

NextSeg == InitAxes \/ AddSubplot \/ ReturnAxes \/ AddSegmentsBar

SpecSeg == InitSeg /\ [][NextSeg]_vars

\* ================================================================ claims
IsCollection(x) == x.type \in iterable_types \cup {"dict"}
SameType(d) == \A i \in DOMAIN d : d[i].type = d[1].type

\* C3: a non-empty list of data sets that all have the same class, grouped
\* with separate unspecified, gives exactly one group, holding all of the
\* inputs in their original order.
C3_SameTypeOneGroup ==
    (pc = "grouped" /\ data # <<>> /\ separate = None /\ SameType(data)
        /\ \A i \in DOMAIN data : ~IsCollection(data[i]))
    => /\ Len(ret.out) = 1
       /\ Contents(ret.out[1], heap) = data
       /\ ret.value = IF flat THEN data ELSE ret.out

C3_Witness ==
    /\ pc = "grouped" /\ separate = None /\ ~flat
    /\ Len(data) = 3 /\ SameType(data)
    /\ data[1] # data[2] /\ data[2] # data[3]
    /\ Len(ret.value) = 1

\* C4: whatever separate is, a mapping input becomes a group of its own: the
\* group started by it holds exactly the mapping's values, in insertion
\* order, also when data sets follow it.
C4_MappingOwnGroup ==
    pc = "grouped" =>
        \A i \in DOMAIN data :
            data[i].type = "dict" =>
                \E k \in DOMAIN ret.out :
                    /\ ret.first[k] = i
                    /\ Contents(ret.out[k], heap) = data[i].items

\* C5: grouping raises no error, whatever mix of mappings, collections and
\* data sets is given and whatever separate and flat are.
C5_GroupingNeverRaises == pc # "group_raised"

\* what the caller supplied, in order: a data set itself, the elements of a
\* collection, the values of a mapping
Supplied(inputs, h) ==
    Concat([i \in DOMAIN inputs |->
               IF IsCollection(inputs[i]) THEN Contents(inputs[i], h)
               ELSE <<inputs[i]>>])

\* C6: the groups returned partition the supplied data items: concatenating
\* the groups gives every item exactly as often as supplied and in supplied
\* order, and flat=True returns this concatenation.
C6_GroupsPartitionItems ==
    [][pc' = "grouped" =>
          /\ Flatten(ret'.out, heap') = Supplied(data, heap)
          /\ flat => ret'.value = Supplied(data, heap)]_vars

HasUnit(x) == x.xunit # "none"

\* C7 as stated: the relative-time scale is selected whenever every item has
\* an xunit of physical type time, and no default when the items have mixed
\* units or no units.
C7_TimeUnitsSelectGps ==
    pc = "xscale_parsed" =>
        /\ (data # <<>> /\ \A i \in DOMAIN data :
                HasUnit(data[i]) /\ physical_type(data[i].xunit) = "time")
           => ret.value = <<"auto-gps">>
        /\ ((\E i, j \in DOMAIN data :
                HasUnit(data[i]) /\ HasUnit(data[j]) /\ data[i].xunit # data[j].xunit)
            \/ \A i \in DOMAIN data : ~HasUnit(data[i]))
           => ret.value = <<None>>

\* C7 amended: the relative-time scale is selected whenever every item has
\* the same xunit and its physical type is time, and no default when the
\* items have two or more distinct units or no units.
C7_SameTimeUnitSelectsGps ==
    pc = "xscale_parsed" =>
        /\ (data # <<>> /\ \A i \in DOMAIN data :
                /\ HasUnit(data[i]) /\ data[i].xunit = data[1].xunit
                /\ physical_type(data[i].xunit) = "time")
           => ret.value = <<"auto-gps">>
        /\ ((\E i, j \in DOMAIN data :
                HasUnit(data[i]) /\ HasUnit(data[j]) /\ data[i].xunit # data[j].xunit)
            \/ \A i \in DOMAIN data : ~HasUnit(data[i]))
           => ret.value = <<None>>

C7_Witness ==
    /\ pc = "xscale_parsed" /\ Len(data) = 3
    /\ \A i \in DOMAIN data : data[i].xunit = "ms"
    /\ data[1].type # data[2].type
    /\ ret.value = <<"auto-gps">>

\* the numbers of groups the inputs may have formed: the number formed, or,
\* when grouping itself raised, any number up to one group per input
GroupCounts ==
    IF ret.err = "AttributeError" THEN 0..Len(data) ELSE {Len(frame.axes_groups)}

\* C1: with an explicit geometry (r, c), if r*c differs from the number of
\* groups formed from the inputs, construction fails with the ValueError that
\* names the group count and the grid, before any axes is added.
C1_GeometryMismatchRaises ==
    (pc \in {"raised", "axes_loop", "done"} /\ geometry # NoGeometry
        /\ geometry[1] * geometry[2] \notin GroupCounts)
    => /\ pc = "raised"
       /\ ret.err = "ValueError"
       /\ ret.value = <<Len(frame.axes_groups), geometry[1], geometry[2]>>
       /\ axes = <<>>

\* C2: with an explicit geometry (r, c) such that r*c is the number of
\* inputs, the inputs are grouped with separate = True whatever the caller
\* passed, no error is raised, and one axes is created per input, in input
\* order.
C2_FullGeometrySeparates ==
    (pc \in {"raised", "axes_loop", "done"} /\ geometry # NoGeometry
        /\ geometry[1] * geometry[2] = Len(data))
    => /\ pc # "raised"
       /\ frame.separate = "True"
       /\ frame.naxes = Len(data)
       /\ \A k \in DOMAIN axes : Concat(axes[k].calls) = Supplied(<<data[k]>>, heap)
       /\ pc = "done" => Len(axes) = Len(data)

C2_Witness ==
    /\ pc = "done" /\ separate = "False" /\ geometry = <<1, 2>>
    /\ Len(data) = 2 /\ ~IsCollection(data[1]) /\ data[2].type = data[1].type
    /\ Len(axes) = 2

\* C8: after construction, with x shared as "all" the x-axis label is
\* cleared on exactly the axes not in the last row; with y shared as "all"
\* the y-axis label is cleared on exactly the axes not in the first column;
\* with any other share spec no label is cleared.
C8_LabelsCleared ==
    pc = "done" =>
        \A k \in DOMAIN axes :
            /\ axes[k].xlabel = "" <=>
                   (ShareSpec(sharex) = "all" /\ axes[k].row # frame.nrows - 1)
            /\ axes[k].ylabel = "" <=>
                   (ShareSpec(sharey) = "all" /\ axes[k].col # 0)

\* the axes at (row, col) among the axes created before the k-th, 0 if none
Earlier(k, row, col, t) ==
    /\ t \in 1..(k - 1)
    /\ axes[t].row = row /\ axes[t].col = col

ShareTarget(share, k, t) ==
    LET a == axes[k]
    IN  CASE ShareSpec(share) = "none" -> t = 0
          [] ShareSpec(share) = "all" ->
                IF a.row = 0 /\ a.col = 0 THEN t = 0 ELSE Earlier(k, 0, 0, t)
          [] ShareSpec(share) = "row" ->
                IF a.col = 0 THEN t = 0 ELSE Earlier(k, a.row, 0, t)
          [] ShareSpec(share) = "col" ->
                IF a.row = 0 THEN t = 0 ELSE Earlier(k, 0, a.col, t)

\* C10: axes are created in row-major order, and the axes at (row, col)
\* shares with nothing (none), the (0,0) axes (all), the (row,0) axes (row),
\* the (0,col) axes (col); the target was created earlier, and the axes at
\* the target position itself shares with nothing.
C10_RowMajorShareTable ==
    \A k \in DOMAIN axes :
        /\ axes[k].row = (k - 1) \div frame.ncols
        /\ axes[k].col = (k - 1) % frame.ncols
        /\ axes[k].row < frame.nrows
        /\ ShareTarget(sharex, k, axes[k].sharex)
        /\ ShareTarget(sharey, k, axes[k].sharey)

C10_Witness ==
    /\ pc = "done" /\ geometry = <<2, 2>> /\ Len(axes) = 4
    /\ sharex = "col" /\ sharey = "row"
    /\ axes[4].sharex = 2 /\ axes[4].sharey = 3
    /\ axes[1].sharex = 0 /\ axes[3].sharey = 0

SegmentAxes(axs) == {k \in DOMAIN axs : axs[k].name = "segments"}

\* C9: add_segments_bar with a location other than 'top' or 'bottom' raises
\* the ValueError, creates no segment axes and leaves the x tick-label
\* visibility and the x-axis label of every axes, the anchor included, as
\* they were.
C9_BadLocationRaises ==
    [][(bar'.n = bar.n + 1 /\ bar'.location \notin {"top", "bottom"})
        => /\ bar'.err = "ValueError"
           /\ SegmentAxes(axes') = SegmentAxes(axes)
           /\ \A k \in DOMAIN axes :
                 /\ axes'[k].xticklabels = axes[k].xticklabels
                 /\ axes'[k].xlabel = axes[k].xlabel
           /\ \A k \in DOMAIN axes' \ DOMAIN axes :
                 axes'[k].xticklabels /\ axes'[k].xlabel = "auto"]_vars

C9_Witness ==
    /\ bar.n = 2 /\ bar.location = "left" /\ bar.sharex = SharexTrue
    /\ bar.err = "ValueError"
    /\ Cardinality(SegmentAxes(axes)) = 1
    /\ \E k \in DOMAIN axes : axes[k].xticklabels /\ axes[k].locator

====
